---------------------------- MODULE Spec2Model ----------------------------
(***************************************************************************)
(* Application workflow, payment gates and payments of the job-matching    *)
(* backend: the Application and Payment documents, the WorkflowManager     *)
(* transition functions, the PaymentGateway and the request handlers that  *)
(* write them.                                                             *)
(*                                                                         *)
(* Spec runs every handler as one action (requests one after another);     *)
(* SpecWorkflow and SpecPayments are its application and payment halves.   *)
(* SpecVerifyRace and SpecCreateRace run a payment request await by await, *)
(* so that requests overlap: applicationController.verifyPayment (gateway  *)
(* save, then processPaymentConfirmation's loads, then its save) and       *)
(* paymentController.createPayment (look-ups, then insert).                *)
(***************************************************************************)
EXTENDS Bags, Integers, FiniteSets, Sequences, TLC

\* ------------------------------------------------------------------ bounds
MaxPayments == 2
ScoreSpread == 1
CutoffSpread == 0

\* ------------------------------------------------------- program constants
DefaultCutoff == 70

\* the model follows one Application, its Payments, two requests in flight
\* and one exam session
AppIds == {1}
PayIds == 1..MaxPayments
ReqIds == {1, 2}
SessIds == {1}
\* the ids initializeSession builds from Date.now() in two calls for one user
\* and one exam
StartIds == {1, 2}
Scores == (DefaultCutoff - ScoreSpread)..(DefaultCutoff + ScoreSpread)
Cutoffs == DefaultCutoff..(DefaultCutoff + CutoffSpread)
\* assessmentScore of an Application that has none yet
NoScore == -1

\* the Job collection: how many documents it holds, and how many writes it
\* has taken, which stands for its contents.  The cache key job_stats holds
\* the statistics of one such contents, or nothing
MaxJobWrites == 3
NoStats == -1

\* ------------------------------------------------------------ schema enums
StatusEnum == {"pending", "accepted", "rejected", "assessment_pending",
               "assessment_completed", "offer_sent", "offer_accepted",
               "documents_pending", "visa_processing", "completed"}
\* a status string outside the enum, as a caller may put in a request body
BogusStatus == "bogus"
\* the status values a request body carries in the model
StatusInputs == {"accepted", "rejected", "completed", BogusStatus}
CurrentStepEnum == {"application", "assessment", "document_submission",
                    "visa_processing", "relocation", "completed"}
PaymentStatusEnum == {"not_required", "required", "pending", "paid", "failed"}
PaymentStatusKeys == {"assessment", "document_processing", "visa_processing"}
GateKeys == {"assessmentBlocked", "documentSubmissionBlocked", "visaProcessingBlocked"}
PaymentStepEnum == {"application", "assessment", "interview",
                    "document_verification", "visa_processing"}
PaymentStateEnum == {"pending", "confirmed", "failed", "expired"}
ConfigStepEnum == {"assessment", "visa_processing", "document_processing"}
\* the steps a request body names in the model
RequestSteps == ConfigStepEnum \cup {"document_verification", "interview"}

VARIABLES apps, jobCutoff, configAmount, jobs, jobStatsCache, payments, reqs, sessions
vars == <<apps, jobCutoff, configAmount, jobs, jobStatsCache, payments, reqs, sessions>>

\* ------------------------------------------------------------- documents
\* the fields of an Application that the workflow reads or writes
NoApp == [exists |-> FALSE, status |-> "pending", currentStep |-> "application",
          paymentStatus |-> [k \in PaymentStatusKeys |-> "not_required"],
          paymentGates |-> [k \in GateKeys |-> TRUE],
          assessmentScore |-> NoScore, assessmentPassed |-> FALSE,
          copies |-> 0]

\* copies is the number of Application documents of the (user, job) pair
NewApplication == [NoApp EXCEPT !.exists = TRUE, !.copies = 1]

\* a transaction hash is its length and whether every character is a
\* hexadecimal digit; NoHash is the field left unset
NoHash == [len |-> 0, hex |-> TRUE]

NoPayment == [exists |-> FALSE, app |-> 1, step |-> "assessment", status |-> "pending",
              transactionHash |-> NoHash, amount |-> 0, exchangeRate |-> 0,
              usdAmount |-> 0]

\* the amounts in US dollars an administrator gives a PaymentConfig
UsdAmounts == {100, 150}

\* a request in flight between two of its awaits: what it has read so far.
\* dirty is the set of paths of the loaded Application document that the
\* handler has assigned a different value (what save() will send).  pc is
\* "threw" when the handler has thrown and the error response is still to go,
\* and error is then the message of what was thrown.
IdleReq == [kind |-> "idle", pc |-> "idle", app |-> 1, step |-> "assessment",
            currency |-> "USDC", pay |-> 1, dirty |-> {}, error |-> "none",
            sess |-> 1, usd |-> 0, stats |-> NoStats]

\* an id the session map has no entry for
NoSession == [exists |-> FALSE, isActive |-> FALSE, violations |-> EmptyBag,
              browserFingerprint |-> "none", ipAddress |-> "none"]

InitStore ==
  /\ apps = [a \in AppIds |-> NoApp]
  /\ jobCutoff \in [AppIds -> Cutoffs]
  /\ configAmount = [st \in ConfigStepEnum |-> 100]
  /\ jobs = [count |-> 0, version |-> 0]
  /\ jobStatsCache = NoStats
  /\ payments = [p \in PayIds |-> NoPayment]
  /\ reqs = [r \in ReqIds |-> IdleReq]

Init ==
  /\ InitStore
  /\ sessions = [s \in SessIds |-> NoSession]

\* the session map with room for the ids of two calls of initializeSession
InitExamStart ==
  /\ InitStore
  /\ sessions = [s \in StartIds |-> NoSession]

\* a request that changes nothing in the store
Refused == UNCHANGED vars

\* --------------------------------------------------------- WorkflowManager
\* the effect of each transition function on the Application document it loaded
processApplicationAcceptance(doc) ==
  [doc EXCEPT !.status = "accepted",
              !.currentStep = "assessment",
              !.paymentStatus.assessment = "required",
              !.paymentGates.assessmentBlocked = TRUE]

\* the guard of processPaymentConfirmation without its test of the status
PaymentIsConfirmed_anyStatus(p) == payments[p].exists

\* the guard of processPaymentConfirmation: the Payment exists and is confirmed
PaymentIsConfirmed(p) == payments[p].exists /\ payments[p].status = "confirmed"

\* a switch whose visa_processing case falls into the default, and whose
\* document_verification case unblocks the visa gate too
ConfirmationEffect_otherTable(doc, step) ==
  CASE step = "assessment" ->
         [doc EXCEPT !.paymentStatus.assessment = "paid",
                     !.paymentGates.assessmentBlocked = FALSE,
                     !.status = "assessment_pending"]
    [] step = "document_verification" ->
         [doc EXCEPT !.paymentStatus.document_processing = "paid",
                     !.paymentGates.documentSubmissionBlocked = FALSE,
                     !.paymentGates.visaProcessingBlocked = FALSE,
                     !.status = "documents_pending",
                     !.currentStep = "document_submission"]
    [] OTHER -> doc

\* the switch on payment.step
ConfirmationEffect(doc, step) ==
  CASE step = "assessment" ->
         [doc EXCEPT !.paymentStatus.assessment = "paid",
                     !.paymentGates.assessmentBlocked = FALSE,
                     !.status = "assessment_pending"]
    [] step = "document_verification" ->
         [doc EXCEPT !.paymentStatus.document_processing = "paid",
                     !.paymentGates.documentSubmissionBlocked = FALSE,
                     !.status = "documents_pending",
                     !.currentStep = "document_submission"]
    [] step = "visa_processing" ->
         [doc EXCEPT !.paymentStatus.visa_processing = "paid",
                     !.paymentGates.visaProcessingBlocked = FALSE,
                     !.status = "visa_processing",
                     !.currentStep = "visa_processing"]
    [] OTHER -> doc

\* an exclusive comparison
PassesCutoff_strict(score, cutoff) == score > cutoff

\* the comparison of processAssessmentCompletion
PassesCutoff(score, cutoff) == score >= cutoff

processAssessmentCompletion(doc, score, cutoff) ==
  IF PassesCutoff(score, cutoff)
    THEN [doc EXCEPT !.assessmentScore = score,
                     !.assessmentPassed = TRUE,
                     !.status = "assessment_completed",
                     !.paymentStatus.document_processing = "required",
                     !.paymentGates.documentSubmissionBlocked = TRUE]
    ELSE [doc EXCEPT !.assessmentScore = score,
                     !.assessmentPassed = FALSE,
                     !.status = "rejected"]

processDocumentVerification(doc, verified) ==
  IF verified
    THEN [doc EXCEPT !.status = "offer_sent",
                     !.paymentStatus.visa_processing = "required",
                     !.paymentGates.visaProcessingBlocked = TRUE]
    ELSE [doc EXCEPT !.status = "rejected"]

processVisaProcessing(doc) ==
  [doc EXCEPT !.status = "visa_processing", !.currentStep = "relocation"]

\* The paths of an Application document
AppPaths == {<<"status">>, <<"currentStep">>, <<"assessmentScore">>, <<"assessmentPassed">>}
           \cup {<<"paymentStatus", k>> : k \in PaymentStatusKeys}
           \cup {<<"paymentGates", k>> : k \in GateKeys}

PathValue(doc, path) ==
  IF Len(path) = 1 THEN doc[path[1]] ELSE doc[path[1]][path[2]]

\* the paths a handler has modified: those whose value differs from the loaded one
ModifiedPaths(loaded, doc) == {path \in AppPaths : PathValue(doc, path) # PathValue(loaded, path)}

\* a save() that sends the whole document
SaveModified_whole(stored, doc, dirty) == doc

\* document.save() sends the modified paths only; every other path keeps
\* what the store holds at that moment
SaveModified(stored, doc, dirty) ==
  [stored EXCEPT
     !.status = IF <<"status">> \in dirty THEN doc.status ELSE @,
     !.currentStep = IF <<"currentStep">> \in dirty THEN doc.currentStep ELSE @,
     !.paymentStatus = [k \in PaymentStatusKeys |->
        IF <<"paymentStatus", k>> \in dirty THEN doc.paymentStatus[k] ELSE @[k]],
     !.paymentGates = [k \in GateKeys |->
        IF <<"paymentGates", k>> \in dirty THEN doc.paymentGates[k] ELSE @[k]],
     !.assessmentScore = IF <<"assessmentScore">> \in dirty THEN doc.assessmentScore ELSE @,
     !.assessmentPassed = IF <<"assessmentPassed">> \in dirty THEN doc.assessmentPassed ELSE @]

\* ------------------------------------------------------ applicationController
applyToJob(a) ==
  IF apps[a].exists
    THEN Refused
    ELSE /\ apps' = [apps EXCEPT ![a] = NewApplication]
         /\ UNCHANGED <<jobCutoff, configAmount, jobs, jobStatsCache, payments, reqs, sessions>>

\* applyToJob await by await.  First Job.findById and Application.findOne:
applyToJobCheck(r, a) ==
  /\ reqs[r].kind = "idle"
  /\ IF apps[a].exists
       THEN Refused
       ELSE /\ reqs' = [reqs EXCEPT ![r] =
                          [IdleReq EXCEPT !.kind = "applyToJob", !.pc = "create", !.app = a]]
            /\ UNCHANGED <<apps, jobCutoff, configAmount, jobs, jobStatsCache, payments, sessions>>

\* an index that admits every insert
UniqueIndexAllows_noIndex(a) == TRUE

\* the unique index on (userId, jobId): an insert passes when the pair has
\* no document
UniqueIndexAllows(a) == apps[a].copies = 0

\* then Application.create, which the unique index refuses with a duplicate
\* key error (E11000) when the pair has a document by now
applyToJobCreate(r) ==
  /\ reqs[r].kind = "applyToJob" /\ reqs[r].pc = "create"
  /\ LET a == reqs[r].app
     IN IF UniqueIndexAllows(a)
          THEN /\ apps' = [apps EXCEPT ![a] =
                             IF @.exists THEN [@ EXCEPT !.copies = @ + 1] ELSE NewApplication]
               /\ reqs' = [reqs EXCEPT ![r] = IdleReq]
          ELSE /\ reqs' = [reqs EXCEPT ![r].pc = "threw", ![r].error = "E11000"]
               /\ UNCHANGED apps
  /\ UNCHANGED <<jobCutoff, configAmount, jobs, jobStatsCache, payments, sessions>>

\* the handler's catch block: the error goes to the error middleware
applyToJobError(r) ==
  /\ reqs[r].kind = "applyToJob" /\ reqs[r].pc = "threw"
  /\ reqs' = [reqs EXCEPT ![r] = IdleReq]
  /\ UNCHANGED <<apps, jobCutoff, configAmount, jobs, jobStatsCache, payments, sessions>>

\* PATCH /applications/:id/status: 'accepted' goes through the WorkflowManager
\* (save(), then the e-mail); any other value is written by findByIdAndUpdate,
\* which runs no validators
updateApplicationStatus(a, status) ==
  IF ~apps[a].exists
    THEN Refused
    ELSE /\ apps' = [apps EXCEPT ![a] =
                       IF status = "accepted" THEN processApplicationAcceptance(@)
                                              ELSE [@ EXCEPT !.status = status]]
         /\ UNCHANGED <<jobCutoff, configAmount, jobs, jobStatsCache, payments, reqs, sessions>>

withdrawApplication(a) ==
  IF ~apps[a].exists
    THEN Refused
    ELSE /\ apps' = [apps EXCEPT ![a].status = "rejected"]
         /\ UNCHANGED <<jobCutoff, configAmount, jobs, jobStatsCache, payments, reqs, sessions>>

\* POST /applications/assessment/score.  The certificate and the e-mail are
\* produced before save(): when either throws, nothing is persisted.
submitAssessmentScore(a, score, emailOk) ==
  IF ~apps[a].exists \/ ~emailOk
    THEN Refused
    ELSE /\ apps' = [apps EXCEPT ![a] = processAssessmentCompletion(@, score, jobCutoff[a])]
         /\ UNCHANGED <<jobCutoff, configAmount, jobs, jobStatsCache, payments, reqs, sessions>>

\* POST /applications/documents/verify; the e-mail precedes save() here too
verifyDocuments(a, verified, emailOk) ==
  IF ~apps[a].exists \/ ~emailOk
    THEN Refused
    ELSE /\ apps' = [apps EXCEPT ![a] = processDocumentVerification(@, verified)]
         /\ UNCHANGED <<jobCutoff, configAmount, jobs, jobStatsCache, payments, reqs, sessions>>

\* POST /applications/visa/process; save() precedes the e-mail
processVisa(a) ==
  IF ~apps[a].exists
    THEN Refused
    ELSE /\ apps' = [apps EXCEPT ![a] = processVisaProcessing(@)]
         /\ UNCHANGED <<jobCutoff, configAmount, jobs, jobStatsCache, payments, reqs, sessions>>

\* ------------------------------------------------ companyDashboardController
\* POST /assessments: the fields are assigned on the loaded document, no
\* WorkflowManager call and no gate
createAssessment(a) ==
  IF ~apps[a].exists
    THEN Refused
    ELSE /\ apps' = [apps EXCEPT ![a].status = "assessment_pending",
                                 ![a].currentStep = "assessment",
                                 ![a].paymentStatus.assessment = "required"]
         /\ UNCHANGED <<jobCutoff, configAmount, jobs, jobStatsCache, payments, reqs, sessions>>

\* PATCH /applications/:applicationId/status: application.status = status,
\* then save(), which rejects a value outside the schema's enum
companyUpdateApplicationStatus(a, status) ==
  IF ~apps[a].exists \/ status \notin StatusEnum
    THEN Refused
    ELSE /\ apps' = [apps EXCEPT ![a].status = status]
         /\ UNCHANGED <<jobCutoff, configAmount, jobs, jobStatsCache, payments, reqs, sessions>>

\* -------------------------------------------------------- ExamSecurityManager
Severities == {"low", "medium", "high", "critical"}

MAX_VIOLATIONS == [low |-> 10, medium |-> 5, high |-> 3, critical |-> 1]

\* the browser and the address an exam is started from, and another of each
Fingerprints == {"fpA", "fpB"}
IpAddresses == {"ipA", "ipB"}
HomeFingerprint == "fpA"
HomeIp == "ipA"

\* initializeSession: the entry stored under a new session id
initializeSession(fp, ip) ==
  [exists |-> TRUE, isActive |-> TRUE, violations |-> EmptyBag,
   browserFingerprint |-> fp, ipAddress |-> ip]

\* session.violations.push(violation); the list is read through its counts
\* and its entries, never through their order
pushViolation(sess, type, severity, description) ==
  [sess EXCEPT !.violations =
     @ (+) SetToBag({[type |-> type, severity |-> severity, description |-> description]})]

getViolationCounts(violations) ==
  [sev \in Severities |->
     BagCardinality([v \in {x \in DOMAIN violations : x.severity = sev} |-> violations[v]])]

\* a ceiling that must be passed, not reached
ExceedsMaximum_strict(counts) ==
  \E sev \in Severities : counts[sev] > MAX_VIOLATIONS[sev]

ExceedsMaximum(counts) ==
  \/ counts.critical >= MAX_VIOLATIONS.critical
  \/ counts.high >= MAX_VIOLATIONS.high
  \/ counts.medium >= MAX_VIOLATIONS.medium
  \/ counts.low >= MAX_VIOLATIONS.low

RECURSIVE recordViolation(_, _, _, _)

\* a termination that appends its closing entry itself
terminateSession_append(sess, reason) ==
  IF sess.exists
    THEN pushViolation([sess EXCEPT !.isActive = FALSE],
                       "session_terminated", "critical", reason)
    ELSE sess

\* terminateSession: isActive is cleared first, then the closing entry is
\* handed to recordViolation
terminateSession(sess, reason) ==
  IF sess.exists
    THEN recordViolation([sess EXCEPT !.isActive = FALSE],
                         "session_terminated", "critical", reason)
    ELSE sess

\* a recordViolation that appends before it looks at the session
recordViolation_pushFirst(sess, type, severity, description) ==
  IF ~sess.exists
    THEN sess
    ELSE LET pushed == pushViolation(sess, type, severity, description)
         IN IF sess.isActive /\ ExceedsMaximum(getViolationCounts(pushed.violations))
              THEN terminateSession(pushed, "Maximum violations exceeded")
              ELSE pushed

\* recordViolation, the session it leaves
recordViolation(sess, type, severity, description) ==
  IF ~sess.exists \/ ~sess.isActive
    THEN sess
    ELSE LET pushed == pushViolation(sess, type, severity, description)
         IN IF ExceedsMaximum(getViolationCounts(pushed.violations))
              THEN terminateSession(pushed, "Maximum violations exceeded")
              ELSE pushed

\* recordViolation, the boolean it returns
recordViolationReturns(sess, type, severity, description) ==
  /\ sess.exists /\ sess.isActive
  /\ ExceedsMaximum(getViolationCounts(
       pushViolation(sess, type, severity, description).violations))

\* a validateSession that looks at the address before the fingerprint
validateSession_ipFirst(sess, fp, ip) ==
  IF ~sess.exists \/ ~sess.isActive THEN sess
  ELSE IF ip # sess.ipAddress
    THEN recordViolation(sess, "ip_change", "high", "IP address changed during exam")
  ELSE IF fp # sess.browserFingerprint
    THEN recordViolation(sess, "browser_change", "critical", "Browser fingerprint mismatch")
  ELSE sess

\* validateSession, the session it leaves
validateSession(sess, fp, ip) ==
  IF ~sess.exists \/ ~sess.isActive THEN sess
  ELSE IF fp # sess.browserFingerprint
    THEN recordViolation(sess, "browser_change", "critical", "Browser fingerprint mismatch")
  ELSE IF ip # sess.ipAddress
    THEN recordViolation(sess, "ip_change", "high", "IP address changed during exam")
  ELSE sess

\* validateSession, the boolean it returns
validateSessionReturns(sess, fp, ip) ==
  /\ sess.exists /\ sess.isActive
  /\ fp = sess.browserFingerprint

\* the manager's methods called one at a time on the session map
ExamSecurityManager_initializeSession(s, fp, ip) ==
  /\ ~sessions[s].exists
  /\ sessions' = [sessions EXCEPT ![s] = initializeSession(fp, ip)]
  /\ UNCHANGED <<apps, jobCutoff, configAmount, jobs, jobStatsCache, payments, reqs>>

ViolationTypes == {"tab_switch"}

ExamSecurityManager_recordViolation(s, type, severity) ==
  /\ sessions' = [sessions EXCEPT ![s] = recordViolation(@, type, severity, "reported")]
  /\ UNCHANGED <<apps, jobCutoff, configAmount, jobs, jobStatsCache, payments, reqs>>

TerminationReasons == {"Manual termination"}

ExamSecurityManager_terminateSession(s, reason) ==
  /\ sessions' = [sessions EXCEPT ![s] = terminateSession(@, reason)]
  /\ UNCHANGED <<apps, jobCutoff, configAmount, jobs, jobStatsCache, payments, reqs>>

ExamSecurityManager_validateSession(s, fp, ip) ==
  /\ sessions' = [sessions EXCEPT ![s] = validateSession(@, fp, ip)]
  /\ UNCHANGED <<apps, jobCutoff, configAmount, jobs, jobStatsCache, payments, reqs>>

NextExamSecurity ==
  \/ \E s \in SessIds, fp \in Fingerprints, ip \in IpAddresses :
       ExamSecurityManager_initializeSession(s, fp, ip)
  \/ \E s \in SessIds, type \in ViolationTypes, sev \in Severities :
       ExamSecurityManager_recordViolation(s, type, sev)
  \/ \E s \in SessIds, reason \in TerminationReasons :
       ExamSecurityManager_terminateSession(s, reason)
  \/ \E s \in SessIds, fp \in Fingerprints, ip \in IpAddresses :
       ExamSecurityManager_validateSession(s, fp, ip)

SpecExamSecurity == Init /\ [][NextExamSecurity]_vars

\* ------------------------------------------------------------- examController
\* a start that does not look at the assessment payment
startExamSessionStatus_unpaid(a) ==
  IF ~(apps[a].exists /\ apps[a].status = "assessment_pending") THEN 404
  ELSE 200

\* the status startExamSession answers with: 404 without an Application in
\* assessment_pending, 403 when its assessment payment is not paid
startExamSessionStatus(a) ==
  IF ~(apps[a].exists /\ apps[a].status = "assessment_pending") THEN 404
  ELSE IF apps[a].paymentStatus.assessment # "paid" THEN 403
  ELSE 200

\* POST /exam/start/:examId: needs an Application in assessment_pending whose
\* paymentStatus.assessment is paid; the gate is not read.  s is the id
\* initializeSession builds from the user, the exam and Date.now(), and the
\* entry is set under it whatever the map holds
startExamSession(s, a) ==
  IF startExamSessionStatus(a) = 200
    THEN /\ sessions' = [sessions EXCEPT ![s] = initializeSession(HomeFingerprint, HomeIp)]
         /\ UNCHANGED <<apps, jobCutoff, configAmount, jobs, jobStatsCache, payments, reqs>>
    ELSE Refused

\* POST /exam/submit sent from the browser and the address of the session: an
\* active session and an Application in assessment_pending; the status is
\* saved, then the session is terminated
submitExamAnswers(s, a) ==
  IF /\ sessions[s].exists /\ sessions[s].isActive
     /\ apps[a].exists
     /\ apps[a].status = "assessment_pending"
    THEN /\ apps' = [apps EXCEPT ![a].status = "assessment_completed"]
         /\ sessions' = [sessions EXCEPT ![s] =
                           terminateSession(@, "Exam completed successfully")]
         /\ UNCHANGED <<jobCutoff, configAmount, jobs, jobStatsCache, payments, reqs>>
    ELSE Refused

\* examSecurityMiddleware, in front of every route below: validateSession with
\* the request's fingerprint and address, 403 when it returns false
examSecurityMiddlewarePasses(sess, fp, ip) == validateSessionReturns(sess, fp, ip)

\* POST /exam/violation: examSecurityMiddleware, then proctoringMiddleware,
\* which records the violation and answers 403 when that ended the session,
\* then reportViolation, which records it again.  The body has no
\* description: the middleware stores its default text, the handler undefined
reportViolation(s, fp, ip, type, severity) ==
  /\ LET validated == validateSession(sessions[s], fp, ip)
         first == recordViolation(validated, type, severity, "Security violation detected")
         second == recordViolation(first, type, severity, "undefined")
     IN sessions' = [sessions EXCEPT ![s] =
          IF ~examSecurityMiddlewarePasses(sessions[s], fp, ip) THEN validated
          ELSE IF recordViolationReturns(validated, type, severity, "Security violation detected")
            THEN first
          ELSE second]
  /\ UNCHANGED <<apps, jobCutoff, configAmount, jobs, jobStatsCache, payments, reqs>>

\* GET /exam/status: examSecurityMiddleware, then a read of the session
getSessionStatus(s, fp, ip) ==
  /\ sessions' = [sessions EXCEPT ![s] = validateSession(@, fp, ip)]
  /\ UNCHANGED <<apps, jobCutoff, configAmount, jobs, jobStatsCache, payments, reqs>>

\* POST /exam/terminate: examSecurityMiddleware, then terminateSession
terminateExam(s, fp, ip, reason) ==
  /\ LET validated == validateSession(sessions[s], fp, ip)
     IN sessions' = [sessions EXCEPT ![s] =
          IF examSecurityMiddlewarePasses(sessions[s], fp, ip)
            THEN terminateSession(validated, reason)
            ELSE validated]
  /\ UNCHANGED <<apps, jobCutoff, configAmount, jobs, jobStatsCache, payments, reqs>>

\* POST /exam/submit await by await.  examSecurityMiddleware and the
\* handler's own look at session.isActive run first, then
\* Application.findOne is awaited
submitExamAnswersCheck(r, s, fp, ip) ==
  /\ reqs[r].kind = "idle"
  /\ LET validated == validateSession(sessions[s], fp, ip)
     IN /\ sessions' = [sessions EXCEPT ![s] = validated]
        /\ reqs' = IF examSecurityMiddlewarePasses(sessions[s], fp, ip) /\ validated.isActive
                     THEN [reqs EXCEPT ![r] =
                             [IdleReq EXCEPT !.kind = "submitExamAnswers", !.pc = "find", !.sess = s]]
                     ELSE reqs
  /\ UNCHANGED <<apps, jobCutoff, configAmount, jobs, jobStatsCache, payments>>

\* Application.findOne({userId, status: 'assessment_pending'}) answers: 404
\* without a document, else the handler assigns the status and awaits save()
submitExamAnswersFind(r, a) ==
  /\ reqs[r].kind = "submitExamAnswers" /\ reqs[r].pc = "find"
  /\ reqs' = IF apps[a].exists /\ apps[a].status = "assessment_pending"
               THEN [reqs EXCEPT ![r].pc = "save", ![r].app = a, ![r].dirty = {<<"status">>}]
               ELSE [reqs EXCEPT ![r] = IdleReq]
  /\ UNCHANGED <<apps, jobCutoff, configAmount, jobs, jobStatsCache, payments, sessions>>

\* save() writes the status, then the session is terminated
submitExamAnswersSave(r) ==
  /\ reqs[r].kind = "submitExamAnswers" /\ reqs[r].pc = "save"
  /\ apps' = [apps EXCEPT ![reqs[r].app].status = "assessment_completed"]
  /\ sessions' = [sessions EXCEPT ![reqs[r].sess] =
                    terminateSession(@, "Exam completed successfully")]
  /\ reqs' = [reqs EXCEPT ![r] = IdleReq]
  /\ UNCHANGED <<jobCutoff, configAmount, jobs, jobStatsCache, payments>>

\* ------------------------------------------------------------ PaymentGateway
\* transaction hashes a caller may send: their length and whether every
\* character is a hexadecimal digit
TxHashes == {[len |-> 64, hex |-> TRUE], [len |-> 63, hex |-> TRUE],
             [len |-> 64, hex |-> FALSE]}

MinHashLength == 64

simulateBlockchainVerification(h) == h.len >= MinHashLength /\ h.hex

ValidHashes == {h \in TxHashes : simulateBlockchainVerification(h)}

\* the PaymentConfig documents: one active configuration, with a wallet
\* address, per step of the PaymentConfig schema
ConfigExists(step) == step \in ConfigStepEnum

\* the configuration PaymentGateway.createPayment looks up for a request
GatewayConfigStep(step) ==
  IF step = "assessment" THEN "assessment"
  ELSE IF step = "document_processing" THEN "document_processing"
  ELSE "visa_processing"

\* PaymentGateway.EXCHANGE_RATES, for the currencies of the model
EXCHANGE_RATES == [BTC |-> 45000, USDC |-> 1]

\* the prices in US dollars the price service answers with, and the price
\* of a coin pegged to the dollar
Prices == {1, 2}
StablePrices == {1}

FreePayIds == {p \in PayIds : ~payments[p].exists}
NextPayId == CHOOSE p \in FreePayIds : \A q \in FreePayIds : p <= q

\* amount is the configured dollar amount divided by the exchange rate
InsertPayment(a, step, usd, rate) ==
  payments' = [payments EXCEPT ![NextPayId] =
                 [exists |-> TRUE, app |-> a, step |-> step, status |-> "pending",
                  transactionHash |-> NoHash, amount |-> usd \div rate,
                  exchangeRate |-> rate, usdAmount |-> usd]]

\* a Payment of this Application and step that is pending or confirmed
ExistingPayment(a, step) ==
  \E p \in PayIds : /\ payments[p].exists
                    /\ payments[p].app = a
                    /\ payments[p].step = step
                    /\ payments[p].status \in {"pending", "confirmed"}

\* paymentMethod is the lower-cased currency and must be in the Payment
\* schema's enum for the insert to pass validation
CurrencyEnum == {"BTC", "ETH", "USDT", "USDC"}
PaymentMethodEnum == {"bitcoin", "ethereum", "tether", "usdc"}
toLowerCase(currency) ==
  CASE currency = "BTC" -> "btc"
    [] currency = "ETH" -> "eth"
    [] currency = "USDT" -> "usdt"
    [] currency = "USDC" -> "usdc"
\* the currencies a request body names in the model
Currencies == {"BTC", "USDC"}

\* the validation of a new Payment document
PaymentIsValid(step, currency) ==
  /\ step \in PaymentStepEnum
  /\ currency \in CurrencyEnum
  /\ toLowerCase(currency) \in PaymentMethodEnum

\* POST /applications/payment: PaymentGateway.createPayment.  No look-up of
\* the Application and none of an existing Payment.  (The model follows the
\* Payments of the submitted Application, PayIds many of them.)
createPaymentGateway(a, step, currency) ==
  /\ apps[a].exists
  /\ FreePayIds # {}
  /\ IF ConfigExists(GatewayConfigStep(step)) /\ PaymentIsValid(step, currency)
       THEN /\ InsertPayment(a, step, configAmount[GatewayConfigStep(step)],
                              EXCHANGE_RATES[currency])
            /\ UNCHANGED <<apps, jobCutoff, configAmount, jobs, jobStatsCache, reqs, sessions>>
       ELSE Refused

\* POST /applications/payment/verify as one step: PaymentGateway.verifyPayment,
\* then WorkflowManager.processPaymentConfirmation (save(), then the e-mail)
verifyPayment(p, h) ==
  IF ~payments[p].exists \/ ~simulateBlockchainVerification(h)
    THEN Refused
    ELSE /\ payments' = [payments EXCEPT ![p].status = "confirmed",
                                          ![p].transactionHash = h]
         /\ apps' = [apps EXCEPT ![payments[p].app] = ConfirmationEffect(@, payments[p].step)]
         /\ UNCHANGED <<jobCutoff, configAmount, jobs, jobStatsCache, reqs, sessions>>

\* the same request await by await.  First PaymentGateway.verifyPayment:
verifyPaymentGateway(r, p, h) ==
  /\ reqs[r].kind = "idle"
  /\ IF ~payments[p].exists \/ ~simulateBlockchainVerification(h)
       THEN Refused
       ELSE /\ payments' = [payments EXCEPT ![p].status = "confirmed",
                                             ![p].transactionHash = h]
            /\ reqs' = [reqs EXCEPT ![r] =
                         [IdleReq EXCEPT !.kind = "verifyPayment", !.pc = "confirm", !.pay = p]]
            /\ UNCHANGED <<apps, jobCutoff, configAmount, jobs, jobStatsCache, sessions>>

\* then processPaymentConfirmation loads the Payment and the Application,
\* throws unless the Payment is confirmed, and runs the switch on the loaded
\* document
processPaymentConfirmationLoad(r) ==
  /\ reqs[r].kind = "verifyPayment" /\ reqs[r].pc = "confirm"
  /\ LET p == reqs[r].pay
         a == payments[p].app
     IN IF ~PaymentIsConfirmed(p)
          THEN reqs' = [reqs EXCEPT ![r].pc = "threw", ![r].error = "Payment not confirmed"]
          ELSE IF ~apps[a].exists
          THEN reqs' = [reqs EXCEPT ![r].pc = "threw", ![r].error = "Application not found"]
          ELSE reqs' = [reqs EXCEPT ![r].pc = "save",
                          ![r].dirty = ModifiedPaths(apps[a],
                                          ConfirmationEffect(apps[a], payments[p].step))]
  /\ UNCHANGED <<apps, jobCutoff, configAmount, jobs, jobStatsCache, payments, sessions>>

\* then save(), then the e-mail, whose failure is thrown to the handler
processPaymentConfirmationSave(r, emailOk) ==
  /\ reqs[r].kind = "verifyPayment" /\ reqs[r].pc = "save"
  /\ LET p == reqs[r].pay
         a == payments[p].app
     IN apps' = [apps EXCEPT ![a] =
                   SaveModified(@, ConfirmationEffect(@, payments[p].step), reqs[r].dirty)]
  /\ reqs' = [reqs EXCEPT ![r] = IF emailOk THEN IdleReq
                                            ELSE [reqs[r] EXCEPT !.pc = "threw", !.dirty = {},
                                                              !.error = "sendEmail"]]
  /\ UNCHANGED <<jobCutoff, configAmount, jobs, jobStatsCache, payments, sessions>>

\* the handler's catch block: the error goes to the error middleware
verifyPaymentError(r) ==
  /\ reqs[r].kind = "verifyPayment" /\ reqs[r].pc = "threw"
  /\ reqs' = [reqs EXCEPT ![r] = IdleReq]
  /\ UNCHANGED <<apps, jobCutoff, configAmount, jobs, jobStatsCache, payments, sessions>>

\* --------------------------------------------------------- paymentController
\* the three look-ups of POST /payments/create
MayCreatePayment(a, step) ==
  ConfigExists(step) /\ apps[a].exists /\ ~ExistingPayment(a, step)

\* POST /payments/create as one step; price is what getCryptoPrice returns
createPayment(a, step, currency, price) ==
  /\ apps[a].exists
  /\ FreePayIds # {}
  /\ IF MayCreatePayment(a, step) /\ PaymentIsValid(step, currency)
       THEN /\ InsertPayment(a, step, configAmount[step], price)
            /\ UNCHANGED <<apps, jobCutoff, configAmount, jobs, jobStatsCache, reqs, sessions>>
       ELSE Refused

\* the same request await by await: the look-ups ...
createPaymentCheck(r, a, step, currency) ==
  /\ reqs[r].kind = "idle"
  /\ apps[a].exists
  /\ IF MayCreatePayment(a, step)
       THEN /\ reqs' = [reqs EXCEPT ![r] =
                          [IdleReq EXCEPT !.kind = "createPayment", !.pc = "insert",
                                          !.app = a, !.step = step, !.currency = currency,
                                          !.usd = configAmount[step]]]
            /\ UNCHANGED <<apps, jobCutoff, configAmount, jobs, jobStatsCache, payments, sessions>>
       ELSE Refused

\* ... then Payment.create
createPaymentInsert(r, price) ==
  /\ reqs[r].kind = "createPayment" /\ reqs[r].pc = "insert"
  /\ FreePayIds # {}
  /\ reqs' = [reqs EXCEPT ![r] = IdleReq]
  /\ IF PaymentIsValid(reqs[r].step, reqs[r].currency)
       THEN InsertPayment(reqs[r].app, reqs[r].step, reqs[r].usd, price)
       ELSE UNCHANGED payments
  /\ UNCHANGED <<apps, jobCutoff, configAmount, jobs, jobStatsCache, sessions>>

\* the step the order list of paymentController.verifyPayment puts after a step
stepOrder == <<"application", "assessment", "interview", "document_verification",
               "visa_processing">>
indexOf(step) == IF \E i \in 1..Len(stepOrder) : stepOrder[i] = step
                   THEN (CHOOSE i \in 1..Len(stepOrder) : stepOrder[i] = step) - 1
                   ELSE -1
NextCurrentStep(step) ==
  IF indexOf(step) < Len(stepOrder) - 1 THEN stepOrder[indexOf(step) + 2] ELSE "completed"

\* paymentStatus[payment.step] = 'paid' reaches the store only for a key of
\* the paymentStatus schema
MarkPaid(doc, step) ==
  IF step \in PaymentStatusKeys THEN [doc EXCEPT !.paymentStatus[step] = "paid"] ELSE doc

\* POST /payments/verify: the Payment is saved confirmed, then the Application
\* is saved unless the new currentStep fails the schema's enum
verifyPaymentDirect(p, h) ==
  IF ~payments[p].exists
    THEN Refused
    ELSE /\ payments' = [payments EXCEPT ![p].status = "confirmed",
                                          ![p].transactionHash = h]
         /\ LET a == payments[p].app
                step == payments[p].step
            IN IF NextCurrentStep(step) \in CurrentStepEnum
                 THEN apps' = [apps EXCEPT ![a] =
                                 [MarkPaid(@, step) EXCEPT !.currentStep = NextCurrentStep(step)]]
                 ELSE UNCHANGED apps
         /\ UNCHANGED <<jobCutoff, configAmount, jobs, jobStatsCache, reqs, sessions>>

adminVerifyPayment(p) ==
  IF ~payments[p].exists
    THEN Refused
    ELSE /\ payments' = [payments EXCEPT ![p].status = "confirmed"]
         /\ apps' = [apps EXCEPT ![payments[p].app] = MarkPaid(@, payments[p].step)]
         /\ UNCHANGED <<jobCutoff, configAmount, jobs, jobStatsCache, reqs, sessions>>

adminRejectPayment(p) ==
  IF ~payments[p].exists
    THEN Refused
    ELSE /\ payments' = [payments EXCEPT ![p].status = "failed"]
         /\ UNCHANGED <<apps, jobCutoff, configAmount, jobs, jobStatsCache, reqs, sessions>>

\* a retry that quotes the Payment again from the present configuration
requestPaymentRetry_requote(p) ==
  IF ~payments[p].exists
    THEN Refused
    ELSE /\ payments' = [payments EXCEPT
                           ![p].status = "pending",
                           ![p].usdAmount = configAmount[GatewayConfigStep(payments[p].step)],
                           ![p].amount = configAmount[GatewayConfigStep(payments[p].step)]
                                           \div payments[p].exchangeRate]
         /\ UNCHANGED <<apps, jobCutoff, configAmount, jobs, jobStatsCache, reqs, sessions>>

\* POST /payments/:id/retry
requestPaymentRetry(p) ==
  IF ~payments[p].exists
    THEN Refused
    ELSE /\ payments' = [payments EXCEPT ![p].status = "pending"]
         /\ UNCHANGED <<apps, jobCutoff, configAmount, jobs, jobStatsCache, reqs, sessions>>

\* PUT /payments/config/:step: findOneAndUpdate with the request body
updatePaymentConfig(step, amount) ==
  /\ step \in ConfigStepEnum
  /\ configAmount' = [configAmount EXCEPT ![step] = amount]
  /\ UNCHANGED <<apps, jobCutoff, jobs, jobStatsCache, payments, reqs, sessions>>

\* PaymentGateway.expireOldPayments: updateMany sets every pending Payment
\* whose expiresAt has passed (the Payments in old) to expired
expireOldPayments(old) ==
  /\ payments' = [p \in PayIds |->
                    IF p \in old /\ payments[p].exists /\ payments[p].status = "pending"
                      THEN [payments[p] EXCEPT !.status = "expired"]
                      ELSE payments[p]]
  /\ UNCHANGED <<apps, jobCutoff, configAmount, jobs, jobStatsCache, reqs, sessions>>

\* -------------------------------------------------------------- jobController
\* the statistics the three aggregations of getJobStats compute from the Job
\* collection: one value for each contents of the collection
aggregateJobStats == jobs.version

\* POST /jobs: Job.create inserts the document
createJobInsert(r) ==
  /\ reqs[r].kind = "idle"
  /\ jobs.version < MaxJobWrites
  /\ jobs' = [count |-> jobs.count + 1, version |-> jobs.version + 1]
  /\ reqs' = [reqs EXCEPT ![r] = [IdleReq EXCEPT !.kind = "createJob", !.pc = "invalidate"]]
  /\ UNCHANGED <<apps, jobCutoff, configAmount, jobStatsCache, payments, sessions>>

\* then cacheService.del('job_stats')
createJobInvalidate(r) ==
  /\ reqs[r].kind = "createJob" /\ reqs[r].pc = "invalidate"
  /\ jobStatsCache' = NoStats
  /\ reqs' = [reqs EXCEPT ![r] = IdleReq]
  /\ UNCHANGED <<apps, jobCutoff, configAmount, jobs, payments, sessions>>

\* PUT /jobs/:id: findById, then findByIdAndUpdate; the handler makes no call
\* to the cache
updateJob ==
  /\ jobs.count > 0
  /\ jobs.version < MaxJobWrites
  /\ jobs' = [jobs EXCEPT !.version = @ + 1]
  /\ UNCHANGED <<apps, jobCutoff, configAmount, jobStatsCache, payments, reqs, sessions>>

\* DELETE /jobs/:id: findByIdAndDelete; the handler makes no call to the
\* cache
deleteJob ==
  /\ jobs.count > 0
  /\ jobs.version < MaxJobWrites
  /\ jobs' = [count |-> jobs.count - 1, version |-> jobs.version + 1]
  /\ UNCHANGED <<apps, jobCutoff, configAmount, jobStatsCache, payments, reqs, sessions>>

\* GET /jobs/stats: getCachedJobStats; an entry is the response, without one
\* the handler goes on to aggregate
getJobStatsCached(r) ==
  /\ reqs[r].kind = "idle"
  /\ reqs' = [reqs EXCEPT ![r] =
                IF jobStatsCache # NoStats
                  THEN [IdleReq EXCEPT !.kind = "getJobStats", !.pc = "responded",
                                       !.stats = jobStatsCache]
                  ELSE [IdleReq EXCEPT !.kind = "getJobStats", !.pc = "aggregate"]]
  /\ UNCHANGED <<apps, jobCutoff, configAmount, jobs, jobStatsCache, payments, sessions>>

\* then the aggregations read the Job collection
getJobStatsAggregate(r) ==
  /\ reqs[r].kind = "getJobStats" /\ reqs[r].pc = "aggregate"
  /\ reqs' = [reqs EXCEPT ![r].pc = "fill", ![r].stats = aggregateJobStats]
  /\ UNCHANGED <<apps, jobCutoff, configAmount, jobs, jobStatsCache, payments, sessions>>

\* then cacheJobStats writes the result under job_stats, and the result is
\* the response
getJobStatsFill(r) ==
  /\ reqs[r].kind = "getJobStats" /\ reqs[r].pc = "fill"
  /\ jobStatsCache' = reqs[r].stats
  /\ reqs' = [reqs EXCEPT ![r].pc = "responded"]
  /\ UNCHANGED <<apps, jobCutoff, configAmount, jobs, payments, sessions>>

\* the response is sent
getJobStatsRespond(r) ==
  /\ reqs[r].kind = "getJobStats" /\ reqs[r].pc = "responded"
  /\ reqs' = [reqs EXCEPT ![r] = IdleReq]
  /\ UNCHANGED <<apps, jobCutoff, configAmount, jobs, jobStatsCache, payments, sessions>>

\* the entry's time to live runs out
jobStatsExpire ==
  /\ jobStatsCache # NoStats
  /\ jobStatsCache' = NoStats
  /\ UNCHANGED <<apps, jobCutoff, configAmount, jobs, payments, reqs, sessions>>

\* ------------------------------------------------------------ specifications
\* the handlers that write an Application or a Payment and the start and the
\* submission of an exam, each as one step
Next ==
  \/ \E a \in AppIds : applyToJob(a)
  \/ \E a \in AppIds, st \in StatusInputs : updateApplicationStatus(a, st)
  \/ \E a \in AppIds : withdrawApplication(a)
  \/ \E a \in AppIds, sc \in Scores, e \in BOOLEAN : submitAssessmentScore(a, sc, e)
  \/ \E a \in AppIds, v \in BOOLEAN, e \in BOOLEAN : verifyDocuments(a, v, e)
  \/ \E a \in AppIds : processVisa(a)
  \/ \E a \in AppIds : createAssessment(a)
  \/ \E a \in AppIds, st \in StatusInputs : companyUpdateApplicationStatus(a, st)
  \/ \E s \in SessIds, a \in AppIds : startExamSession(s, a)
  \/ \E s \in SessIds, a \in AppIds : submitExamAnswers(s, a)
  \/ \E a \in AppIds, st \in RequestSteps, c \in Currencies : createPaymentGateway(a, st, c)
  \/ \E p \in PayIds, h \in TxHashes : verifyPayment(p, h)
  \/ \E a \in AppIds, st \in RequestSteps, c \in Currencies, price \in StablePrices :
       createPayment(a, st, c, price)
  \/ \E p \in PayIds, h \in ValidHashes : verifyPaymentDirect(p, h)
  \/ \E p \in PayIds : adminVerifyPayment(p)
  \/ \E p \in PayIds : adminRejectPayment(p)
  \/ \E p \in PayIds : requestPaymentRetry(p)

Spec == Init /\ [][Next]_vars

\* the handlers of the application and company routes, which write the
\* Application and no Payment
NextWorkflow ==
  \/ \E a \in AppIds : applyToJob(a)
  \/ \E a \in AppIds, st \in StatusInputs : updateApplicationStatus(a, st)
  \/ \E a \in AppIds : withdrawApplication(a)
  \/ \E a \in AppIds, sc \in Scores, e \in BOOLEAN : submitAssessmentScore(a, sc, e)
  \/ \E a \in AppIds, v \in BOOLEAN, e \in BOOLEAN : verifyDocuments(a, v, e)
  \/ \E a \in AppIds : processVisa(a)
  \/ \E a \in AppIds : createAssessment(a)
  \/ \E a \in AppIds, st \in StatusInputs : companyUpdateApplicationStatus(a, st)

SpecWorkflow == Init /\ [][NextWorkflow]_vars

\* the gateway's payment handlers and the administrator's, each as one step,
\* on an Application that is submitted, accepted and withdrawn
NextPayments ==
  \/ \E a \in AppIds : applyToJob(a)
  \/ \E a \in AppIds : updateApplicationStatus(a, "accepted")
  \/ \E a \in AppIds : withdrawApplication(a)
  \/ \E a \in AppIds, st \in RequestSteps, c \in Currencies : createPaymentGateway(a, st, c)
  \/ \E p \in PayIds, h \in TxHashes : verifyPayment(p, h)
  \/ \E p \in PayIds : adminVerifyPayment(p)
  \/ \E p \in PayIds : adminRejectPayment(p)
  \/ \E p \in PayIds : requestPaymentRetry(p)

SpecPayments == Init /\ [][NextPayments]_vars

\* the two verification routes of a user under every transaction hash
NextVerify ==
  \/ \E a \in AppIds : applyToJob(a)
  \/ \E a \in AppIds, c \in Currencies : createPaymentGateway(a, "assessment", c)
  \/ \E p \in PayIds, h \in TxHashes : verifyPayment(p, h)
  \/ \E p \in PayIds, h \in TxHashes : verifyPaymentDirect(p, h)
  \/ \E p \in PayIds : adminRejectPayment(p)

SpecVerify == Init /\ [][NextVerify]_vars

\* the assessment Payments of one Application under changing prices and a
\* changing PaymentConfig
NextQuotes ==
  \/ \E a \in AppIds : applyToJob(a)
  \/ \E amount \in UsdAmounts : updatePaymentConfig("assessment", amount)
  \/ \E a \in AppIds, c \in Currencies : createPaymentGateway(a, "assessment", c)
  \/ \E a \in AppIds, c \in Currencies, price \in Prices :
       createPayment(a, "assessment", c, price)
  \/ \E p \in PayIds, h \in ValidHashes : verifyPayment(p, h)
  \/ \E p \in PayIds, h \in ValidHashes : verifyPaymentDirect(p, h)
  \/ \E p \in PayIds : adminVerifyPayment(p)
  \/ \E p \in PayIds : adminRejectPayment(p)
  \/ \E p \in PayIds : requestPaymentRetry(p)
  \/ \E p \in PayIds : expireOldPayments({p})

SpecQuotes == Init /\ [][NextQuotes]_vars

\* POST /applications/payment/verify await by await, two requests
\* overlapping each other and an administrator's rejection
NextVerifyRace ==
  \/ \E a \in AppIds : applyToJob(a)
  \/ \E a \in AppIds, st \in RequestSteps \ {"interview"}, c \in Currencies :
       createPaymentGateway(a, st, c)
  \/ \E r \in ReqIds, p \in PayIds, h \in TxHashes : verifyPaymentGateway(r, p, h)
  \/ \E r \in ReqIds : processPaymentConfirmationLoad(r)
  \/ \E r \in ReqIds, e \in BOOLEAN : processPaymentConfirmationSave(r, e)
  \/ \E r \in ReqIds : verifyPaymentError(r)
  \/ \E p \in PayIds : adminRejectPayment(p)

SpecVerifyRace == Init /\ [][NextVerifyRace]_vars

\* POST /payments/create await by await, two requests overlapping each other,
\* an administrator's rejection and a retry
NextCreateRace ==
  \/ \E a \in AppIds : applyToJob(a)
  \/ \E r \in ReqIds, a \in AppIds, st \in RequestSteps, c \in Currencies :
        createPaymentCheck(r, a, st, c)
  \/ \E r \in ReqIds, price \in StablePrices : createPaymentInsert(r, price)
  \/ \E p \in PayIds : adminRejectPayment(p)
  \/ \E p \in PayIds : requestPaymentRetry(p)

SpecCreateRace == Init /\ [][NextCreateRace]_vars

\* applyToJob await by await, two requests of the same user for the same job
\* overlapping each other and the handlers that write the Application
NextApplyRace ==
  \/ \E r \in ReqIds, a \in AppIds : applyToJobCheck(r, a)
  \/ \E r \in ReqIds : applyToJobCreate(r)
  \/ \E r \in ReqIds : applyToJobError(r)
  \/ \E a \in AppIds, st \in StatusInputs : updateApplicationStatus(a, st)
  \/ \E a \in AppIds : withdrawApplication(a)
  \/ \E a \in AppIds, sc \in Scores, e \in BOOLEAN : submitAssessmentScore(a, sc, e)

SpecApplyRace == Init /\ [][NextApplyRace]_vars

\* the exam routes, the submission await by await, on an Application that an
\* assessment was created for and whose assessment payment was verified
NextExam ==
  \/ \E a \in AppIds : applyToJob(a)
  \/ \E a \in AppIds : createAssessment(a)
  \/ \E a \in AppIds, c \in Currencies : createPaymentGateway(a, "assessment", c)
  \/ \E p \in PayIds, h \in TxHashes : verifyPayment(p, h)
  \/ \E s \in SessIds, a \in AppIds : startExamSession(s, a)
  \/ \E s \in SessIds, fp \in Fingerprints, ip \in IpAddresses,
        type \in ViolationTypes, sev \in Severities : reportViolation(s, fp, ip, type, sev)
  \/ \E s \in SessIds, fp \in Fingerprints, ip \in IpAddresses : getSessionStatus(s, fp, ip)
  \/ \E s \in SessIds, fp \in Fingerprints, ip \in IpAddresses,
        reason \in TerminationReasons : terminateExam(s, fp, ip, reason)
  \/ \E r \in ReqIds, s \in SessIds, fp \in Fingerprints, ip \in IpAddresses :
       submitExamAnswersCheck(r, s, fp, ip)
  \/ \E r \in ReqIds, a \in AppIds : submitExamAnswersFind(r, a)
  \/ \E r \in ReqIds : submitExamAnswersSave(r)

SpecExam == Init /\ [][NextExam]_vars

\* two starts of one exam by one user, and the reports and the end of each
\* session
NextExamStart ==
  \/ \E a \in AppIds : applyToJob(a)
  \/ \E a \in AppIds, c \in Currencies : createPaymentGateway(a, "assessment", c)
  \/ \E p \in PayIds, h \in ValidHashes : verifyPayment(p, h)
  \/ \E s \in StartIds, a \in AppIds : startExamSession(s, a)
  \/ \E s \in StartIds, type \in ViolationTypes, sev \in {"high", "critical"} :
       reportViolation(s, HomeFingerprint, HomeIp, type, sev)
  \/ \E s \in StartIds, reason \in TerminationReasons :
       terminateExam(s, HomeFingerprint, HomeIp, reason)

SpecExamStart == InitExamStart /\ [][NextExamStart]_vars

\* ------------------------------------------------------- gates and payments
\* the pairs the switch of processPaymentConfirmation makes: the Payment step
\* that opens a gate, and the paymentStatus key set with it
GatedSteps == {"assessment", "document_verification", "visa_processing"}
GateOfPaymentStep(step) ==
  CASE step = "assessment" -> "assessmentBlocked"
    [] step = "document_verification" -> "documentSubmissionBlocked"
    [] step = "visa_processing" -> "visaProcessingBlocked"
GateOfStatusKey(key) ==
  CASE key = "assessment" -> "assessmentBlocked"
    [] key = "document_processing" -> "documentSubmissionBlocked"
    [] key = "visa_processing" -> "visaProcessingBlocked"

HasConfirmedPayment(a, step) ==
  \E p \in PayIds : /\ payments[p].exists
                    /\ payments[p].app = a
                    /\ payments[p].step = step
                    /\ payments[p].status = "confirmed"

\* the job handlers and the statistics cache, one step for each await
NextJobStats ==
  \/ \E r \in ReqIds : createJobInsert(r)
  \/ \E r \in ReqIds : createJobInvalidate(r)
  \/ updateJob
  \/ deleteJob
  \/ \E r \in ReqIds : getJobStatsCached(r)
  \/ \E r \in ReqIds : getJobStatsAggregate(r)
  \/ \E r \in ReqIds : getJobStatsFill(r)
  \/ \E r \in ReqIds : getJobStatsRespond(r)
  \/ jobStatsExpire

SpecJobStats == Init /\ [][NextJobStats]_vars

\* ------------------------------------------------------------------- claims
\* C1: in every reachable state, a gate of an Application that is unblocked
\* (false) has a confirmed Payment of that Application and that step.
UnblockedGateHasConfirmedPayment ==
  \A a \in AppIds, step \in GatedSteps :
     (apps[a].exists /\ ~apps[a].paymentGates[GateOfPaymentStep(step)])
        => HasConfirmedPayment(a, step)

\* C2: a blocked gate blocks progress: no step records status
\* assessment_completed while assessmentBlocked is true, and no step starts
\* visa processing (status visa_processing, currentStep relocation) while
\* visaProcessingBlocked is true.
GateBlocksProgress ==
  [][\A a \in AppIds :
       LET old == apps[a]
           new == apps'[a]
       IN /\ (old.exists /\ new.status = "assessment_completed"
                         /\ old.status # "assessment_completed")
               => ~old.paymentGates.assessmentBlocked
          /\ (old.exists /\ new.status = "visa_processing" /\ new.currentStep = "relocation"
                         /\ ~(old.status = "visa_processing" /\ old.currentStep = "relocation"))
               => ~old.paymentGates.visaProcessingBlocked]_vars

\* C3: in every reachable state there is at most one Payment that is pending
\* or confirmed per Application and step.
AtMostOneOpenPayment ==
  \A p, q \in PayIds :
     (/\ p # q
      /\ payments[p].exists /\ payments[q].exists
      /\ payments[p].app = payments[q].app
      /\ payments[p].step = payments[q].step
      /\ payments[p].status \in {"pending", "confirmed"})
        => payments[q].status \notin {"pending", "confirmed"}

\* C4: every call of processAssessmentCompletion, whatever the Application's
\* state before it, decides by score >= cutoff: a score at or above the job's
\* cutoff gives assessmentPassed, status assessment_completed and
\* paymentStatus.document_processing required; a score below it gives status
\* rejected.
AssessmentCompletionIsInclusive ==
  [][\A a \in AppIds, sc \in Scores :
       (apps[a].exists /\ submitAssessmentScore(a, sc, TRUE))
         => IF sc >= jobCutoff[a]
              THEN /\ apps'[a].assessmentPassed
                   /\ apps'[a].status = "assessment_completed"
                   /\ apps'[a].paymentStatus.document_processing = "required"
              ELSE /\ apps'[a].status = "rejected"
                   /\ ~apps'[a].assessmentPassed]_vars

\* C4 witness: an Application scored exactly at the job's cutoff has passed
ScoredAtCutoffPasses ==
  \E a \in AppIds : /\ apps[a].exists
                    /\ apps[a].assessmentScore = jobCutoff[a]
                    /\ apps[a].assessmentPassed
                    /\ apps[a].status = "assessment_completed"
                    /\ apps[a].paymentStatus.document_processing = "required"

\* C5: rejected is terminal: no step changes a status that is rejected.
RejectedIsTerminal ==
  [][\A a \in AppIds : apps[a].status = "rejected" => apps'[a].status = "rejected"]_vars

\* C6: in every reachable state, the gate of a step is unblocked (false)
\* whenever a Payment of that Application and step is confirmed.
ConfirmedPaymentUnblocksGate ==
  \A p \in PayIds :
     (payments[p].exists /\ payments[p].status = "confirmed" /\ payments[p].step \in GatedSteps)
        => ~apps[payments[p].app].paymentGates[GateOfPaymentStep(payments[p].step)]

\* C7: in every reachable state and for each of the three steps, the gate is
\* false exactly when paymentStatus of the step is paid.
GatesMirrorPaymentStatus ==
  \A a \in AppIds, key \in PaymentStatusKeys :
     apps[a].exists =>
        (~apps[a].paymentGates[GateOfStatusKey(key)] <=> apps[a].paymentStatus[key] = "paid")

\* C8: a call of processPaymentConfirmation for a Payment that does not exist
\* or is not confirmed throws 'Payment not confirmed' and changes no field of
\* any Application.
ConfirmationRequiresConfirmedPayment ==
  [][\A r \in ReqIds :
       (/\ reqs[r].kind = "verifyPayment" /\ reqs[r].pc = "confirm"
        /\ reqs'[r] # reqs[r]
        /\ ~(payments[reqs[r].pay].exists /\ payments[reqs[r].pay].status = "confirmed"))
         => /\ reqs'[r].pc = "threw"
            /\ reqs'[r].error = "Payment not confirmed"
            /\ apps' = apps]_vars

\* C8 witness: a verification request whose Payment was rejected between the
\* gateway's save and processPaymentConfirmation has thrown
ConfirmationThrewNotConfirmed ==
  \E r \in ReqIds : /\ reqs[r].pc = "threw"
                    /\ reqs[r].error = "Payment not confirmed"
                    /\ payments[reqs[r].pay].status # "confirmed"

\* C9: processPaymentConfirmation applies exactly the step table to the
\* Payment's Application: assessment sets paymentStatus.assessment paid,
\* assessmentBlocked false, status assessment_pending; document_verification
\* sets paymentStatus.document_processing paid, documentSubmissionBlocked
\* false, status documents_pending, currentStep document_submission;
\* visa_processing sets paymentStatus.visa_processing paid,
\* visaProcessingBlocked false, status visa_processing, currentStep
\* visa_processing; any other step changes nothing; the gates and payment
\* statuses of the other steps keep their values.
ConfirmationAppliesStepTable ==
  [][\A p \in PayIds, h \in TxHashes :
       (payments[p].exists /\ simulateBlockchainVerification(h) /\ verifyPayment(p, h))
         => LET step == payments[p].step
                old == apps[payments[p].app]
                new == apps'[payments[p].app]
                key == IF step = "document_verification" THEN "document_processing" ELSE step
            IN IF step \in GatedSteps
                 THEN /\ new.paymentStatus[key] = "paid"
                      /\ ~new.paymentGates[GateOfPaymentStep(step)]
                      /\ new.status = CASE step = "assessment" -> "assessment_pending"
                                        [] step = "document_verification" -> "documents_pending"
                                        [] step = "visa_processing" -> "visa_processing"
                      /\ new.currentStep = CASE step = "assessment" -> old.currentStep
                                             [] step = "document_verification" -> "document_submission"
                                             [] step = "visa_processing" -> "visa_processing"
                      /\ \A k \in PaymentStatusKeys \ {key} :
                            new.paymentStatus[k] = old.paymentStatus[k]
                      /\ \A g \in GateKeys \ {GateOfPaymentStep(step)} :
                            new.paymentGates[g] = old.paymentGates[g]
                 ELSE /\ new.status = old.status
                      /\ new.currentStep = old.currentStep
                      /\ new.paymentStatus = old.paymentStatus
                      /\ new.paymentGates = old.paymentGates]_vars

\* C9 witness: a document_verification Payment was confirmed and its row of
\* the table is on the Application
DocumentPaymentConfirmed ==
  \E p \in PayIds :
     /\ payments[p].exists /\ payments[p].status = "confirmed"
     /\ payments[p].step = "document_verification"
     /\ apps[payments[p].app].status = "documents_pending"
     /\ apps[payments[p].app].currentStep = "document_submission"
     /\ apps[payments[p].app].paymentStatus.document_processing = "paid"
     /\ ~apps[payments[p].app].paymentGates.documentSubmissionBlocked
     /\ apps[payments[p].app].paymentGates.visaProcessingBlocked

\* C10: status, currentStep, paymentStatus and paymentGates of an Application
\* change only by a WorkflowManager transition function or by withdrawal.
TransitionFieldsChangeOnlyByWorkflow ==
  [][\A a \in AppIds :
       LET old == apps[a]
           new == apps'[a]
       IN (/\ old.exists
           /\ \/ new.status # old.status
              \/ new.currentStep # old.currentStep
              \/ new.paymentStatus # old.paymentStatus
              \/ new.paymentGates # old.paymentGates)
            => \/ new = processApplicationAcceptance(old)
               \/ \E step \in PaymentStepEnum : new = ConfirmationEffect(old, step)
               \/ \E sc \in Scores : new = processAssessmentCompletion(old, sc, jobCutoff[a])
               \/ \E v \in BOOLEAN : new = processDocumentVerification(old, v)
               \/ new = processVisaProcessing(old)
               \/ new = [old EXCEPT !.status = "rejected"]]_vars

\* C11: in every reachable state the (user, job) pair has at most one
\* Application document, and a create that finds the pair taken (after a
\* concurrent create, or after a withdrawal) throws and writes nothing.
OneApplicationPerPair ==
  /\ \A a \in AppIds : apps[a].copies <= 1
  /\ \A a \in AppIds : apps[a].exists <=> apps[a].copies >= 1

\* C11 witness: of two overlapping requests one has created the Application,
\* since rejected, and the other was refused by the index
SecondApplyRefused ==
  \E r \in ReqIds : /\ reqs[r].kind = "applyToJob"
                    /\ reqs[r].pc = "threw" /\ reqs[r].error = "E11000"
                    /\ apps[reqs[r].app].copies = 1
                    /\ apps[reqs[r].app].status = "rejected"

\* C12: once a session is inactive no call of recordViolation,
\* validateSession or terminateSession makes it active again or appends to
\* its violations, and recordViolation on it returns false.
TerminationIsMonotonic ==
  /\ [](\A s \in SessIds, type \in ViolationTypes, sev \in Severities :
          (sessions[s].exists /\ ~sessions[s].isActive) =>
             ~recordViolationReturns(sessions[s], type, sev, "reported"))
  /\ [][\A s \in SessIds :
          (sessions[s].exists /\ ~sessions[s].isActive) =>
             /\ sessions'[s].exists /\ ~sessions'[s].isActive
             /\ sessions'[s].violations = sessions[s].violations]_vars

\* C12 witness: a session terminated with an empty list, on which
\* terminateSession's own recordViolation call has returned without appending
TerminatedWithoutEntry ==
  \E s \in SessIds : /\ sessions[s].exists /\ ~sessions[s].isActive
                     /\ sessions[s].violations = EmptyBag

\* C13: on an active session whose violations all have one severity, a
\* further violation of that severity leaves the session active and returns
\* false as long as the count stays below 10 (low), 5 (medium), 3 (high),
\* 1 (critical); the call that reaches that count makes the session inactive
\* and returns true.
CeilingCallTerminates ==
  [][\A s \in SessIds, sev \in Severities :
       LET sess == sessions[s]
           n == BagCardinality(sess.violations)
           c == [low |-> 10, medium |-> 5, high |-> 3, critical |-> 1][sev]
       IN (/\ sess.exists /\ sess.isActive
           /\ \A v \in BagToSet(sess.violations) : v.severity = sev
           /\ getViolationCounts(sessions'[s].violations)[sev] = n + 1)
          => /\ n + 1 <= c
             /\ sessions'[s].isActive <=> n + 1 < c
             /\ recordViolationReturns(sess, "tab_switch", sev, "reported") <=> n + 1 = c]_vars

\* C13 witness: the tenth low violation, and no other, has ended a session
TenthLowViolationTerminated ==
  \E s \in SessIds :
    /\ sessions[s].exists /\ ~sessions[s].isActive
    /\ getViolationCounts(sessions[s].violations) =
         [low |-> 10, medium |-> 0, high |-> 0, critical |-> 0]

\* C14: terminating a session twice leaves what terminating it once leaves,
\* and terminating an id the map does not hold changes nothing.
TerminateSessionIsIdempotent ==
  \A s \in SessIds, reason \in TerminationReasons :
    LET once == terminateSession(sessions[s], reason)
    IN /\ terminateSession(once, reason) = once
       /\ sessions[s].exists => ~once.isActive
       /\ ~sessions[s].exists => once = NoSession

\* C14 witness: a session ended by terminateSession, below every ceiling
TerminatedBelowCeilings ==
  \E s \in SessIds :
    /\ sessions[s].exists /\ ~sessions[s].isActive
    /\ sessions[s].violations # EmptyBag
    /\ ~ExceedsMaximum(getViolationCounts(sessions[s].violations))

\* C15: whenever an active session becomes inactive, by terminateSession or
\* by reaching a ceiling in recordViolation, a session_terminated entry
\* carrying the reason is appended to its violations.
TerminationAppendsClosingEntry ==
  [][\A s \in SessIds :
       (sessions[s].exists /\ sessions[s].isActive /\ ~sessions'[s].isActive)
       => \E v \in BagToSet(sessions'[s].violations) :
            /\ v.type = "session_terminated"
            /\ v.description \in TerminationReasons \cup {"Maximum violations exceeded"}
            /\ CopiesIn(v, sessions'[s].violations) = CopiesIn(v, sessions[s].violations) + 1]_vars

\* C18: validateSession on an unknown or inactive session returns false and
\* records nothing; on an active session a different fingerprint records one
\* critical violation, ends the session and returns false; the same
\* fingerprint from a different address records one high violation and
\* returns true; the same fingerprint and address record nothing and return
\* true.
ValidateSessionCases ==
  \A s \in SessIds, fp \in Fingerprints, ip \in IpAddresses :
    LET sess == sessions[s]
        after == validateSession(sess, fp, ip)
        ret == validateSessionReturns(sess, fp, ip)
        before == getViolationCounts(sess.violations)
        counts == getViolationCounts(after.violations)
    IN IF ~sess.exists \/ ~sess.isActive
         THEN after = sess /\ ~ret
       ELSE IF fp # sess.browserFingerprint
         THEN /\ counts = [before EXCEPT !.critical = @ + 1]
              /\ ~after.isActive
              /\ ~ret
       ELSE IF ip # sess.ipAddress
         THEN /\ counts = [before EXCEPT !.high = @ + 1]
              /\ ret
       ELSE after = sess /\ ret

\* C18 witness: an address change was recorded and the session went on
IpChangeRecorded ==
  \E s \in SessIds :
    /\ sessions[s].exists /\ sessions[s].isActive
    /\ \E v \in BagToSet(sessions[s].violations) :
         v.type = "ip_change" /\ v.severity = "high"

\* C16: an Application is marked assessment_completed by a submission only
\* while the submission's session is active: no write of submitExamAnswers
\* happens after the session was terminated, so a session yields at most one
\* accepted submission.
SubmissionWritesOnlyWhileActive ==
  [][\A r \in ReqIds :
       (/\ reqs[r].kind = "submitExamAnswers" /\ reqs[r].pc = "save"
        /\ reqs'[r].kind = "idle"
        /\ apps'[reqs[r].app].status = "assessment_completed")
       => sessions[reqs[r].sess].isActive]_vars

\* C17: a session entry is created only in a state where the caller's
\* Application is in assessment_pending with paymentStatus.assessment paid;
\* in every other state startExamSession answers 404 or 403.
StartRequiresPaidAssessment ==
  /\ [](\A a \in AppIds :
          LET granted == /\ apps[a].exists
                         /\ apps[a].status = "assessment_pending"
                         /\ apps[a].paymentStatus.assessment = "paid"
          IN IF granted THEN startExamSessionStatus(a) = 200
                        ELSE startExamSessionStatus(a) \in {403, 404})
  /\ [][\A s \in SessIds :
          (~sessions[s].exists /\ sessions'[s].exists)
          => \E a \in AppIds : /\ apps[a].exists
                               /\ apps[a].status = "assessment_pending"
                               /\ apps[a].paymentStatus.assessment = "paid"]_vars

\* C17 witness: a session was started, and the Application it was started
\* for is still in assessment_pending and paid
ExamSessionStarted ==
  \E s \in SessIds, a \in AppIds :
    /\ sessions[s].exists /\ sessions[s].isActive
    /\ apps[a].status = "assessment_pending"
    /\ apps[a].paymentStatus.assessment = "paid"

\* C19: a user's verification request with a transaction hash that fails
\* the shape check (hexadecimal digits only, 64 characters or more) leaves
\* the Payment and the Application as they were.
FailingHashChangesNothing ==
  [][\A p \in PayIds, h \in TxHashes :
       (/\ ~simulateBlockchainVerification(h)
        /\ payments[p].exists
        /\ verifyPayment(p, h) \/ verifyPaymentDirect(p, h))
       => payments'[p] = payments[p] /\ apps' = apps]_vars

\* C20: the amount, the exchangeRate and the usdAmount of a Payment are the
\* same after every step as before it.
PaymentQuoteIsFrozen ==
  [][\A p \in PayIds :
       payments[p].exists
       => /\ payments'[p].exists
          /\ payments'[p].amount = payments[p].amount
          /\ payments'[p].exchangeRate = payments[p].exchangeRate
          /\ payments'[p].usdAmount = payments[p].usdAmount]_vars

\* C20 witness: a confirmed Payment whose usdAmount is no longer the amount of
\* its configuration, beside an expired Payment quoted at a price of 2
QuoteOutlivesConfig ==
  \E p \in PayIds :
    /\ payments[p].exists
    /\ payments[p].usdAmount # configAmount[GatewayConfigStep(payments[p].step)]
    /\ payments[p].status = "confirmed"
    /\ \E q \in PayIds : /\ payments[q].exists
                         /\ payments[q].status = "expired"
                         /\ payments[q].exchangeRate = 2

\* C21: a failure of the e-mail sender during a workflow transition is
\* swallowed: no request ends with the sender's error thrown to its handler.
EmailFailureIsSwallowed ==
  \A r \in ReqIds : ~(reqs[r].pc = "threw" /\ reqs[r].error = "sendEmail")

\* C22: the job_stats entry of the cache holds the statistics of the present
\* Job collection, a createJob that has yet to invalidate the entry aside; so
\* a getJobStats that answers from the cache after a finished write returns
\* nothing computed before that write.
CachedJobStatsAreCurrent ==
  (jobStatsCache # NoStats /\ jobStatsCache # aggregateJobStats)
    => \E r \in ReqIds : reqs[r].kind = "createJob" /\ reqs[r].pc = "invalidate"

RepeatedVerificationChangesNothing ==
  [][\A p \in PayIds, h \in TxHashes :
       (/\ payments[p].exists
        /\ payments[p].status = "confirmed"
        /\ payments[p].transactionHash # NoHash
        /\ verifyPayment(p, h))
         => apps' = apps]_vars

\* C25: an Application with status assessment_completed has assessmentPassed
\* true and an assessmentScore of at least its cutoff.
AssessmentCompletedHasPassingScore ==
  \A a \in AppIds :
    (apps[a].exists /\ apps[a].status = "assessment_completed")
      => /\ apps[a].assessmentPassed
         /\ apps[a].assessmentScore # NoScore
         /\ apps[a].assessmentScore >= jobCutoff[a]

\* C26: a Payment whose status is failed or expired never becomes confirmed.
TerminalPaymentNeverConfirmed ==
  [][\A p \in PayIds :
       (payments[p].exists /\ payments[p].status \in {"failed", "expired"})
         => payments'[p].status # "confirmed"]_vars

\* C27: one POST /exam/violation on an active session, from the session's
\* own browser and address, appends exactly one violation to the session.
OneReportAppendsOneViolation ==
  [][\A s \in SessIds, fp \in Fingerprints, ip \in IpAddresses,
        type \in ViolationTypes, severity \in Severities :
       (/\ sessions[s].exists /\ sessions[s].isActive
        /\ examSecurityMiddlewarePasses(sessions[s], fp, ip)
        /\ reportViolation(s, fp, ip, type, severity))
         => BagCardinality(sessions'[s].violations)
              = BagCardinality(sessions[s].violations) + 1]_vars

\* C28: at most one active exam session exists for a user and an exam.
AtMostOneActiveSession ==
  Cardinality({s \in StartIds : sessions[s].exists /\ sessions[s].isActive}) <= 1

\* C29: an active exam session has fewer violations of each severity than
\* that severity's ceiling.
ActiveSessionBelowCeilings ==
  \A s \in SessIds :
    (sessions[s].exists /\ sessions[s].isActive)
      => \A severity \in Severities :
           getViolationCounts(sessions[s].violations)[severity] < MAX_VIOLATIONS[severity]

\* C29 witness: an active session one violation short of a ceiling
ActiveOneShortOfCeiling ==
  \E s \in SessIds :
    /\ sessions[s].exists /\ sessions[s].isActive
    /\ getViolationCounts(sessions[s].violations)["high"] = MAX_VIOLATIONS["high"] - 1
    /\ getViolationCounts(sessions[s].violations)["low"] = MAX_VIOLATIONS["low"] - 1

\* C30: every step PaymentGateway.createPayment has a configuration for
\* (assessment, document_processing, visa_processing) can start the cycle of
\* creation, verification and confirmation: a request for it on an existing
\* Application creates a Payment.
AcceptedStepCreatesPayment ==
  \A a \in AppIds, step \in ConfigStepEnum :
    (apps[a].exists /\ FreePayIds # {})
      => \E c \in Currencies :
           ENABLED (createPaymentGateway(a, step, c) /\ payments' # payments)

=============================================================================
